---- MODULE Spec2Model ----
(***************************************************************************)
(* Model of two programs of the repository:                                *)
(*   - the kernel message queue (src/Kernel/messageQueueADT.c), driven     *)
(*     through sendMessage / receiveMessage;                               *)
(*   - the buddy allocator test program (src/testMemoryManager/buddy.c),   *)
(*     driven through malloc / free.                                       *)
(* The two programs share no state; each has its own specification         *)
(* (SpecQueue, LiveSpecQueue, SpecBuddy) over the same variable list.      *)
(***************************************************************************)
EXTENDS Integers, Sequences, FiniteSets, TLC

NULL == 0

(***************************************************************************)
(* Bounds of the message queue model.                                      *)
(***************************************************************************)
MaxSends == 3          \* total number of sendMessage calls in a behaviour
MaxLen == 3            \* longest payload of one message
MaxRecv == 4           \* largest length passed to receiveMessage
MaxLiveSends == 2      \* as MaxSends, in the specification with fairness

Unset == 0             \* content of a destination byte never written
NoReturn == -1         \* "ret" of a call that has not returned: none made, or killed by a trap
Senders == {7, 9}      \* pids of the processes that send to the queue
NodeIds == 1..MaxSends \* addresses the kernel heap hands out for nodes

\* The queue copies payload bytes and never inspects them, so every byte a
\* sender passes in carries a tag of its own: the i-th byte sender p ever
\* sent.  Any misplaced, repeated or lost byte then shows in the result.
Byte(p, i) == 100 * p + i
Text(p, from, n) == [i \in 1..n |-> Byte(p, from + i)]

VARIABLES
  \* ---- struct queueHeader and the heap of struct node / struct msg ----
  nodes,          \* allocated nodes: id -> [tail, head, pid, msg, length]
  first,          \* queue->first
  last,           \* queue->last
  waitingForPid,  \* queue->waitingForPid
  messageSize,    \* queue->messageSize
  \* ---- the owner process, as the scheduler sees it ----
  ownerState,     \* "ready" | "blocked"
  pc,             \* "idle" | "yield" (suspended inside receiveMessage) | "done"
  rPid, rLen,     \* arguments of the current / most recent receiveMessage
  dest,           \* the caller's destination buffer of that call
  \* ---- history of the calls, used to state the properties ----
  sentCount,      \* sender -> number of sendMessage calls it made
  sentBytes,      \* sender -> number of payload bytes it passed in
  consumed,       \* sender -> number of bytes delivered by completed receives
  rBlocked,       \* the current / most recent receive called blockProcess
  rAvail,         \* bytes pending from rPid when that receive was called
  sendRet,        \* what the last send system call returned
  allocFail,      \* the allocation of sendMessage that returned NULL, or "none"
  \* ---- buddy allocator: the statics of buddy.c and the memory it touches ----
  mem,            \* word address -> word: page zero, buckets[], the window
  node_is_split,  \* node index -> bit
  bucket_limit,
  max_ptr,
  nullTraps,      \* the build traps on an access to page zero
  crashed,        \* the allocator program was killed by such a trap
  live,           \* allocations returned and not yet released: [ptr, request]
  history         \* the calls made so far: [name, arg, ret, changed]

bvars == <<mem, node_is_split, bucket_limit, max_ptr, nullTraps, crashed, live, history>>
qvars == <<nodes, first, last, waitingForPid, messageSize, ownerState, pc,
           rPid, rLen, dest, sentCount, sentBytes, consumed, rBlocked, rAvail,
           sendRet, allocFail>>
vars == <<nodes, first, last, waitingForPid, messageSize, ownerState, pc,
          rPid, rLen, dest, sentCount, sentBytes, consumed, rBlocked, rAvail,
          sendRet, allocFail,
          mem, node_is_split, bucket_limit, max_ptr, nullTraps, crashed, live, history>>

(***************************************************************************)
(* Helpers on sequences.                                                   *)
(***************************************************************************)
RECURSIVE Concat(_)
Concat(ss) == IF ss = <<>> THEN <<>> ELSE Head(ss) \o Concat(Tail(ss))

RECURSIVE SumLen(_)
SumLen(ss) == IF ss = <<>> THEN 0 ELSE Len(Head(ss)) + SumLen(Tail(ss))

(***************************************************************************)
(* memcpy(dst + doff, src + soff, n): bytes are copied one at a time from  *)
(* the lowest offset upwards.  MemcpyWithin is the call whose source and   *)
(* destination lie in the same buffer (messageQueueADT.c:54).              *)
(***************************************************************************)
RECURSIVE memcpy(_,_,_,_,_)
memcpy(dst, doff, src, soff, n) ==
  IF n <= 0 THEN dst
  ELSE memcpy([dst EXCEPT ![doff + 1] = src[soff + 1]], doff + 1, src, soff + 1, n - 1)

RECURSIVE MemcpyWithin(_,_,_,_)
MemcpyWithin(buf, doff, soff, n) ==
  IF n <= 0 THEN buf
  ELSE MemcpyWithin([buf EXCEPT ![doff + 1] = buf[soff + 1]], doff + 1, soff + 1, n - 1)

(***************************************************************************)
(* isMessageAvailable(curr, pid, length)                                   *)
(***************************************************************************)
\* Line 27: the bytes counted so far cover the length asked for.
EnoughSome(aux, length) == aux > 0

Enough(aux, length) == aux >= length

\* Line 32: the list ended before the loop returned.
EndOfListCounts(aux, length) == IF aux >= length THEN 1 ELSE 0

EndOfList(aux, length) == 0

RECURSIVE isMessageAvailableFrom(_,_,_,_,_)
isMessageAvailableFrom(ns, curr, pid, length, aux) ==
  IF curr = NULL THEN EndOfList(aux, length)
  ELSE IF ns[curr].pid = pid
       THEN IF Enough(aux + ns[curr].length, length) THEN 1
            ELSE isMessageAvailableFrom(ns, ns[curr].tail, pid, length, aux + ns[curr].length)
       ELSE isMessageAvailableFrom(ns, ns[curr].tail, pid, length, aux)

isMessageAvailable(ns, curr, pid, length) == isMessageAvailableFrom(ns, curr, pid, length, 0)

(***************************************************************************)
(* searchMessageR(curr, queue, prev, pid, length, dest).  st carries the   *)
(* memory the call works on: the nodes, queue->last and the destination    *)
(* buffer; off is how far dest has been advanced.  The three branches of   *)
(* the function are the three operators below.                             *)
(***************************************************************************)

\* Lines 47-50: after the recursive call returned aux, free the payload, the
\* struct msg and the node, and return what the recursion returned.
ConsumeWhole(curr, aux) ==
  [ret |-> aux.ret,
   nodes |-> [i \in (DOMAIN aux.nodes) \ {curr} |-> aux.nodes[i]],
   last |-> aux.last,
   dest |-> aux.dest]

\* Line 54: memcpy(msg, msg + length, curr->message->length - length).
ShiftedPayloadSameOffset(m, length) == MemcpyWithin(m.msg, 0, 0, m.length - length)

ShiftedPayload(m, length) == MemcpyWithin(m.msg, 0, length, m.length - length)

\* Lines 53-56: the message is longer than what is still wanted.
TakePart(curr, length, off, st) ==
  LET m == st.nodes[curr]
  IN [ret |-> curr,
      nodes |-> [st.nodes EXCEPT ![curr].msg = ShiftedPayload(m, length),
                                 ![curr].length = m.length - length],
      last |-> st.last,
      dest |-> memcpy(st.dest, off, m.msg, 0, length)]

\* Lines 59-62: a message of another sender stays; r is what the recursion on
\* curr->tail returned.
SkipOtherDropsNode(curr, r) ==
  [ret |-> r.ret, nodes |-> r.nodes, last |-> r.last, dest |-> r.dest]

SkipOther(curr, r) ==
  [ret |-> curr,
   nodes |-> [r.nodes EXCEPT ![curr].tail = r.ret],
   last |-> IF r.ret = NULL THEN curr ELSE r.last,
   dest |-> r.dest]

\* Line 44: dest += curr->message->length.
AdvanceDestNot(off, m) == off

AdvanceDest(off, m) == off + m.length

RECURSIVE searchMessageR(_,_,_,_,_,_)
searchMessageR(curr, prev, pid, length, off, st) ==
  IF curr = NULL
  THEN [ret |-> NULL, nodes |-> st.nodes, last |-> st.last, dest |-> st.dest]
  ELSE LET n1 == [st.nodes EXCEPT ![curr].head = prev]
           m == n1[curr]
           st1 == [nodes |-> n1, last |-> st.last, dest |-> st.dest]
       IN IF m.pid = pid
          THEN IF length >= m.length
               THEN ConsumeWhole(curr,
                      searchMessageR(m.tail, prev, pid, length - m.length,
                                     AdvanceDest(off, m),
                                     [st1 EXCEPT !.dest = memcpy(st.dest, off, m.msg, 0, m.length)]))
               ELSE TakePart(curr, length, off, st1)
          ELSE SkipOther(curr, searchMessageR(m.tail, curr, pid, length, off, st1))

(***************************************************************************)
(* What the queue holds, read by walking from queue->first along tail.     *)
(***************************************************************************)
RECURSIVE Walk(_,_)
Walk(ns, curr) ==
  IF curr = NULL THEN <<>>
  ELSE <<[pid |-> ns[curr].pid, text |-> SubSeq(ns[curr].msg, 1, ns[curr].length)]>>
       \o Walk(ns, ns[curr].tail)

Queue == Walk(nodes, first)

RECURSIVE WalkIds(_,_)
WalkIds(ns, curr) == IF curr = NULL THEN <<>> ELSE <<curr>> \o WalkIds(ns, ns[curr].tail)

RECURSIVE FromPid(_,_)
FromPid(q, p) ==
  IF q = <<>> THEN <<>>
  ELSE IF Head(q).pid = p THEN <<Head(q).text>> \o FromPid(Tail(q), p)
       ELSE FromPid(Tail(q), p)

RECURSIVE NotFromPid(_,_)
NotFromPid(q, p) ==
  IF q = <<>> THEN <<>>
  ELSE IF Head(q).pid # p THEN <<Head(q)>> \o NotFromPid(Tail(q), p)
       ELSE NotFromPid(Tail(q), p)

Pending(p) == Concat(FromPid(Queue, p))
PendingBytes(p) == Len(Pending(p))
Stream(p) == Text(p, 0, sentBytes[p])

RECURSIVE SumOver(_,_)
SumOver(f, S) == IF S = {} THEN 0
                 ELSE LET x == CHOOSE y \in S : TRUE IN f[x] + SumOver(f, S \ {x})
TotalSends == SumOver(sentCount, Senders)

(***************************************************************************)
(* newMessageQueue(pid): first, last and waitingForPid are set; the       *)
(* messageSize field is left as malloc returned it.                        *)
(***************************************************************************)
Uninitialized == {0, MaxRecv + 1}

newMessageQueue ==
  /\ nodes = <<>>
  /\ first = NULL
  /\ last = NULL
  /\ waitingForPid = -1
  /\ messageSize \in Uninitialized

(***************************************************************************)
(* sendMessage(queue, pid, text, length), with length = Len(text).  The    *)
(* payload buffer, the node and its struct msg are one heap object at a    *)
(* free address id.  unblockProcess makes the owner runnable.              *)
(***************************************************************************)
\* Line 100: the condition under which sendMessage unblocks the owner; ns and
\* f are the nodes and queue->first once the new node is linked.
OwnerIsUnblockedSignSlip(pid, length, ns, f) ==
  pid = waitingForPid /\ isMessageAvailable(ns, f, pid, messageSize + length) = 1

OwnerIsUnblocked(pid, length, ns, f) ==
  pid = waitingForPid /\ isMessageAvailable(ns, f, pid, messageSize - length) = 1

sendMessage(pid, text, id) ==
  LET length == Len(text)
      newNode == [tail |-> NULL, head |-> last, pid |-> pid, msg |-> text,
                  length |-> length]
      n1 == [i \in (DOMAIN nodes) \cup {id} |-> IF i = id THEN newNode ELSE nodes[i]]
      n2 == IF first = NULL THEN n1 ELSE [n1 EXCEPT ![last].tail = id]
      f2 == IF first = NULL THEN id ELSE first
  IN /\ nodes' = n2
     /\ first' = f2
     /\ last' = id
     /\ ownerState' = IF OwnerIsUnblocked(pid, length, n2, f2) THEN "ready"
                      ELSE ownerState
     /\ UNCHANGED <<waitingForPid, messageSize>>

\* systemCallDispatcher.c, send: what the system call returns once
\* sendMessage has returned.
send == 1

\* The kernel's malloc, as far as the queue depends on it: the address of a
\* block that is not allocated (the lowest one, so freed addresses are reused).
KernelMalloc == CHOOSE x \in NodeIds \ DOMAIN nodes : \A y \in NodeIds \ DOMAIN nodes : x <= y

SendUpTo(bound) ==
  /\ TotalSends < bound
  /\ allocFail = "none"
  /\ sendRet' = send
  /\ UNCHANGED allocFail
  /\ \E pid \in Senders, length \in 0..MaxLen, id \in {KernelMalloc} :
        /\ sendMessage(pid, Text(pid, sentBytes[pid], length), id)
        /\ sentCount' = [sentCount EXCEPT ![pid] = @ + 1]
        /\ sentBytes' = [sentBytes EXCEPT ![pid] = @ + length]
  /\ UNCHANGED <<pc, rPid, rLen, dest, consumed, rBlocked, rAvail,
          mem, node_is_split, bucket_limit, max_ptr, nullTraps, crashed, live, history>>

Send == SendUpTo(MaxSends)

SendLive == SendUpTo(MaxLiveSends)

(***************************************************************************)
(* sendMessage when one of its three calls of malloc returns NULL.  The    *)
(* result is not checked, so the code goes on to use the pointer.  An      *)
(* access through NULL either traps, and the call never returns, or goes   *)
(* to page zero, and then the call runs to its end.  What the queue does   *)
(* once it holds pointers into page zero is not followed: no call is       *)
(* modelled after a failed allocation.                                     *)
(***************************************************************************)
AllocSites == {"payload", "node", "record"}   \* lines 82, 84, 87

\* Lines 85-104 with newNode = NULL: the fields of the node are written to
\* page zero, queue->first is left as it is (or assigned NULL, which it was),
\* queue->last->tail and queue->last become NULL.
sendMessageNoNode(pid, text) ==
  LET n2 == IF first = NULL THEN nodes ELSE [nodes EXCEPT ![last].tail = NULL]
  IN /\ nodes' = n2
     /\ first' = first
     /\ last' = NULL
     /\ ownerState' = IF OwnerIsUnblocked(pid, Len(text), n2, first) THEN "ready"
                      ELSE ownerState
     /\ UNCHANGED <<waitingForPid, messageSize>>

SendAllocFails ==
  /\ TotalSends < MaxLiveSends
  /\ allocFail = "none"
  /\ \E pid \in Senders, length \in 0..MaxLen, site \in AllocSites, traps \in BOOLEAN :
        LET text == Text(pid, sentBytes[pid], length)
            \* memcpy(NULL, text, 0) touches no memory
            faults == traps /\ ~(site = "payload" /\ length = 0)
        IN /\ allocFail' = site
           /\ sentCount' = [sentCount EXCEPT ![pid] = @ + 1]
           /\ sentBytes' = [sentBytes EXCEPT ![pid] = @ + length]
           /\ IF faults
              THEN /\ sendRet' = NoReturn
                   /\ UNCHANGED <<nodes, first, last, ownerState, waitingForPid, messageSize>>
              ELSE /\ sendRet' = send
                   /\ IF site = "node" THEN sendMessageNoNode(pid, text)
                      ELSE sendMessage(pid, text, KernelMalloc)
  /\ UNCHANGED <<pc, rPid, rLen, dest, consumed, rBlocked, rAvail,
          mem, node_is_split, bucket_limit, max_ptr, nullTraps, crashed, live, history>>

(***************************************************************************)
(* receiveMessage(queue, pid, dest, length): the part run each time the    *)
(* owner executes it, on the call and again after yieldProcess returns.    *)
(***************************************************************************)
receiveMessage(pid, length, buf) ==
  IF isMessageAvailable(nodes, first, pid, length) = 0
  THEN /\ waitingForPid' = pid
       /\ messageSize' = length
       /\ ownerState' = "blocked"
       /\ pc' = "yield"
       /\ dest' = buf
       /\ UNCHANGED <<nodes, first, last, consumed>>
  ELSE LET r == searchMessageR(first, NULL, pid, length, 0,
                               [nodes |-> nodes, last |-> last, dest |-> buf])
       IN /\ first' = r.ret
          /\ nodes' = r.nodes
          /\ last' = r.last
          /\ dest' = r.dest
          /\ pc' = "done"
          /\ consumed' = [consumed EXCEPT ![pid] = @ + length]
          /\ UNCHANGED <<waitingForPid, messageSize, ownerState>>

ReceiveCall ==
  /\ allocFail = "none"
  /\ pc \in {"idle", "done"}
  /\ ownerState = "ready"
  /\ \E pid \in Senders, length \in 0..MaxRecv :
        /\ rPid' = pid
        /\ rLen' = length
        /\ rAvail' = PendingBytes(pid)
        /\ rBlocked' = (isMessageAvailable(nodes, first, pid, length) = 0)
        /\ receiveMessage(pid, length, [i \in 1..length |-> Unset])
  /\ UNCHANGED <<sentCount, sentBytes, sendRet, allocFail, bvars>>

\* yieldProcess returns once the scheduler runs the owner again, which it
\* does only while the owner is not blocked; receiveMessage then calls itself.
Resume ==
  /\ allocFail = "none"
  /\ pc = "yield"
  /\ ownerState = "ready"
  /\ receiveMessage(rPid, rLen, dest)
  /\ UNCHANGED <<rPid, rLen, rBlocked, rAvail, sentCount, sentBytes, sendRet, allocFail, bvars>>

(***************************************************************************)
(* The buddy allocator, src/testMemoryManager/buddy.c.                     *)
(*                                                                         *)
(* Sizes are scaled: the window is 2^MAX_ALLOC_LOG2 bytes with             *)
(* MAX_ALLOC_LOG2 = 10 (the source has 29) and size_t is SIZE_BITS wide    *)
(* (the source has 64); every size_t computation is reduced modulo         *)
(* 2^SIZE_BITS.                                                            *)
(***************************************************************************)
HEADER_SIZE == 8
MIN_ALLOC_LOG2 == 7
MAX_ALLOC_LOG2 == 10
SIZE_BITS == 26
MaxCalls == 3          \* number of malloc / free calls in a behaviour

MIN_ALLOC == 2 ^ MIN_ALLOC_LOG2
MAX_ALLOC == 2 ^ MAX_ALLOC_LOG2
BUCKET_COUNT == MAX_ALLOC_LOG2 - MIN_ALLOC_LOG2 + 1
SIZE_MOD == 2 ^ SIZE_BITS
SizeT(x) == x % SIZE_MOD

\* sizeof(list_t): prev is the word at offset 0, next the word at offset 8.
WORD == 8
PrevOf(p) == p
NextOf(p) == p + WORD

base_ptr == 16777216               \* (int8_t *)0x1000000
BucketsAt == 4096                  \* where the linker put buckets[]
buckets(b) == BucketsAt + 2 * WORD * b
Foreign == BucketsAt + 2 * WORD * BUCKET_COUNT   \* memory that is none of the allocator's

PageZero == {PrevOf(NULL), NextOf(NULL)}
BucketWords == UNION {{PrevOf(buckets(b)), NextOf(buckets(b))} : b \in 0..(BUCKET_COUNT - 1)}
Blocks == {base_ptr + k * MIN_ALLOC : k \in 0..(2 ^ (BUCKET_COUNT - 1) - 1)}
WindowWords == UNION {{PrevOf(p), NextOf(p)} : p \in Blocks}
ForeignWords == {PrevOf(Foreign), NextOf(Foreign)}
Addresses == PageZero \cup BucketWords \cup WindowWords \cup ForeignWords
SplitBits == 0..(2 ^ (BUCKET_COUNT - 1) - 1)   \* the bits of node_is_split[]

(***************************************************************************)
(* The allocator's operations work on a record m of the memory and the     *)
(* statics: [mem, split, limit, fault, freeRoot].  fault records that an   *)
(* access hit page zero in a build that traps there, or an address that    *)
(* is not mapped; nothing done after a fault matters, the program is dead. *)
(* freeRoot records that lower_bucket_limit took the branch of lines       *)
(* 240-245 (the whole tree is free) during the call.                       *)
(***************************************************************************)
Mapped(a) == a \in Addresses /\ ~(nullTraps /\ a \in PageZero)

Load(m, a) == IF Mapped(a) THEN m.mem[a] ELSE 0

Touch(m, a) == IF Mapped(a) THEN m ELSE [m EXCEPT !.fault = TRUE]

Store(m, a, v) ==
  IF m.fault THEN m
  ELSE IF Mapped(a) THEN [m EXCEPT !.mem[a] = v]
  ELSE [m EXCEPT !.fault = TRUE]

list_init(m, list) == Store(Store(m, PrevOf(list), list), NextOf(list), list)

list_push(m, list, entry) ==
  LET prev == Load(m, PrevOf(list))
      m0 == Touch(m, PrevOf(list))
      m1 == Store(m0, PrevOf(entry), prev)
      m2 == Store(m1, NextOf(entry), list)
      m3 == Store(m2, NextOf(prev), entry)
  IN Store(m3, PrevOf(list), entry)

list_remove(m, entry) ==
  LET prev == Load(m, PrevOf(entry))
      next == Load(m, NextOf(entry))
      m0 == Touch(Touch(m, PrevOf(entry)), NextOf(entry))
      m1 == Store(m0, NextOf(prev), next)
  IN Store(m1, PrevOf(next), prev)

\* Returns the memory and the entry popped (NULL if the list is empty).
list_pop(m, list) ==
  LET back == Load(m, PrevOf(list))
      m0 == Touch(m, PrevOf(list))
  IN IF back = list THEN [m |-> m0, ptr |-> NULL]
     ELSE [m |-> list_remove(m0, back), ptr |-> back]

ptr_for_node(index, bucket) ==
  SizeT(base_ptr + SizeT((index - 2 ^ bucket + 1) * 2 ^ (MAX_ALLOC_LOG2 - bucket)))

node_for_ptr(ptr, bucket) ==
  SizeT(((ptr - base_ptr) \div 2 ^ (MAX_ALLOC_LOG2 - bucket)) + 2 ^ bucket - 1)

ParentOf(index) == SizeT(index - 1) \div 2

parent_is_split(m, index) ==
  IF ParentOf(index) \in SplitBits THEN m.split[ParentOf(index)] ELSE 0

flip_parent_is_split(m, index) ==
  IF m.fault THEN m
  ELSE IF ParentOf(index) \in SplitBits
       THEN [m EXCEPT !.split[ParentOf(index)] = 1 - @]
       ELSE [m EXCEPT !.fault = TRUE]

RECURSIVE bucket_for_size(_,_,_)
bucket_for_size(request, bucket, size) ==
  IF size < request
  THEN bucket_for_size(request, SizeT(bucket - 1), SizeT(size * 2))
  ELSE bucket

bucket_for_request(request) == bucket_for_size(request, BUCKET_COUNT - 1, MIN_ALLOC)

(***************************************************************************)
(* lower_bucket_limit(bucket)                                              *)
(***************************************************************************)
RECURSIVE lower_bucket_limit(_,_)
lower_bucket_limit(m, bucket) ==
  IF m.fault \/ ~(bucket < m.limit) THEN m
  ELSE LET root == node_for_ptr(base_ptr, m.limit)
       IN IF parent_is_split(m, root) = 0
          THEN LET m1 == list_remove(m, base_ptr)
                   m2 == [m1 EXCEPT !.limit = SizeT(m.limit - 1), !.freeRoot = TRUE]
                   m3 == list_init(m2, buckets(m2.limit))
               IN lower_bucket_limit(list_push(m3, buckets(m3.limit), base_ptr), bucket)
          ELSE LET right_child == ptr_for_node(root + 1, m.limit)
                   m1 == list_push(m, buckets(m.limit), right_child)
                   m2 == [m1 EXCEPT !.limit = SizeT(m.limit - 1)]
                   m3 == list_init(m2, buckets(m2.limit))
                   parent == ParentOf(root)
               IN lower_bucket_limit(IF parent # 0 THEN flip_parent_is_split(m3, parent)
                                     ELSE m3,
                                     bucket)

(***************************************************************************)
(* malloc(request).  The operators return [m, ret].                        *)
(***************************************************************************)

\* Line 283: the request cannot be served.
TooLargeNoCheck(request) == FALSE

TooLarge(request) == SizeT(request + HEADER_SIZE) > MAX_ALLOC

\* Line 293: the allocator has not been set up yet.
NotInitializedAlways == TRUE

NotInitialized == base_ptr = NULL

\* Lines 295-298.
Initialize(m) ==
  LET m1 == [m EXCEPT !.limit = BUCKET_COUNT - 1]
      m2 == list_init(m1, buckets(BUCKET_COUNT - 1))
  IN list_push(m2, buckets(BUCKET_COUNT - 1), base_ptr)

\* Lines 293-299: the memory the search for a block starts from.
AtSearch(m) == IF NotInitialized THEN Initialize(m) ELSE m

\* Lines 387-392: split the node down to the bucket wanted.
RECURSIVE SplitDown(_,_,_,_)
SplitDown(m, i, bucket, original_bucket) ==
  IF m.fault \/ ~(bucket < original_bucket) THEN m
  ELSE LET i1 == SizeT(i * 2 + 1)
           b1 == bucket + 1
           m1 == flip_parent_is_split(m, i1)
       IN SplitDown(list_push(m1, buckets(b1), ptr_for_node(i1 + 1, b1)),
                    i1, b1, original_bucket)

\* Lines 357-399: ptr came off the free list of bucket.
TakeBlock(m, ptr, bucket, original_bucket, request) ==
  LET i == node_for_ptr(ptr, bucket)
      m1 == IF i # 0 THEN flip_parent_is_split(m, i) ELSE m
      m2 == SplitDown(m1, i, bucket, original_bucket)
  IN [m |-> Store(m2, ptr, request), ret |-> SizeT(ptr + HEADER_SIZE)]

\* Lines 313-400: the search loop.
RECURSIVE SearchBuckets(_,_,_,_)
SearchBuckets(m, bucket, original_bucket, request) ==
  IF m.fault \/ SizeT(bucket + 1) = 0 THEN [m |-> m, ret |-> NULL]
  ELSE LET p1 == list_pop(m, buckets(bucket))
       IN IF p1.ptr = NULL
          THEN IF bucket # p1.m.limit \/ bucket = 0
               THEN SearchBuckets(p1.m, SizeT(bucket - 1), original_bucket, request)
               ELSE LET p2 == list_pop(lower_bucket_limit(p1.m, bucket - 1), buckets(bucket))
                    IN TakeBlock(p2.m, p2.ptr, bucket, original_bucket, request)
          ELSE TakeBlock(p1.m, p1.ptr, bucket, original_bucket, request)

malloc(m, request) ==
  IF TooLarge(request) THEN [m |-> m, ret |-> NULL]
  ELSE LET m1 == AtSearch(m)
           bucket == bucket_for_request(SizeT(request + HEADER_SIZE))
       IN SearchBuckets(m1, bucket, bucket, request)

(***************************************************************************)
(* free(ptr)                                                               *)
(***************************************************************************)

\* Line 411: nothing to do for a NULL pointer.
IsNullNever(ptr) == FALSE

IsNull(ptr) == ptr = NULL

\* Lines 428-459: returns [m, i, bucket].
RECURSIVE MergeUp(_,_,_)
MergeUp(m, i, bucket) ==
  IF m.fault \/ i = 0 THEN [m |-> m, i |-> i, bucket |-> bucket]
  ELSE LET m1 == flip_parent_is_split(m, i)
       IN IF parent_is_split(m1, i) = 1 \/ bucket = m1.limit
          THEN [m |-> m1, i |-> i, bucket |-> bucket]
          ELSE LET buddy == IF (i - 1) % 2 = 0 THEN i + 1 ELSE i - 1
               IN MergeUp(list_remove(m1, ptr_for_node(buddy, bucket)),
                          ParentOf(i), SizeT(bucket - 1))

free(m, ptr) ==
  IF IsNull(ptr) THEN m
  ELSE LET p == SizeT(ptr - HEADER_SIZE)
           bucket == bucket_for_request(SizeT(Load(m, p) + HEADER_SIZE))
           i == node_for_ptr(p, bucket)
           r == MergeUp(Touch(m, p), i, bucket)
       IN list_push(r.m, buckets(r.bucket), ptr_for_node(r.i, r.bucket))

(***************************************************************************)
(* The test program: calls of malloc and free.                             *)
(***************************************************************************)
Requests ==
  {0, 1, MIN_ALLOC - HEADER_SIZE, MIN_ALLOC - HEADER_SIZE + 1, 200, 500, 900,
   MAX_ALLOC - HEADER_SIZE, MAX_ALLOC - HEADER_SIZE + 1, MAX_ALLOC,
   SIZE_MOD - HEADER_SIZE - 1, SIZE_MOD - HEADER_SIZE, SIZE_MOD - 1}

Memory ==
  [mem |-> mem, split |-> node_is_split, limit |-> bucket_limit, fault |-> FALSE,
   freeRoot |-> FALSE]

\* The allocator's own state: the free lists (sentinels and the links and
\* headers inside the window), the split bits, bucket_limit and max_ptr.
OwnWords == BucketWords \cup WindowWords
Own(m) == <<[a \in OwnWords |-> m.mem[a]], m.split, m.limit>>

Commit(m) ==
  /\ mem' = m.mem
  /\ node_is_split' = m.split
  /\ bucket_limit' = m.limit
  /\ crashed' = m.fault
  /\ UNCHANGED <<max_ptr, nullTraps>>

Malloc ==
  /\ ~crashed
  /\ Len(history) < MaxCalls
  /\ \E request \in Requests :
        LET r == malloc(Memory, request)
            ret == IF r.m.fault THEN NoReturn ELSE r.ret
        IN /\ Commit(r.m)
           /\ live' = IF ret \in {NULL, NoReturn} THEN live
                      ELSE live \cup {[ptr |-> ret, request |-> request]}
           /\ history' = Append(history, [name |-> "malloc", arg |-> request, ret |-> ret,
                                          changed |-> Own(r.m) # Own(Memory),
                                          freeRoot |-> r.m.freeRoot])
  /\ UNCHANGED qvars

Free ==
  /\ ~crashed
  /\ Len(history) < MaxCalls
  /\ \E ptr \in {NULL} \cup {a.ptr : a \in live} :
        LET m == free(Memory, ptr)
        IN /\ Commit(m)
           /\ live' = {a \in live : a.ptr # ptr}
           /\ history' = Append(history, [name |-> "free", arg |-> ptr,
                                          ret |-> IF m.fault THEN NoReturn ELSE 0,
                                          changed |-> Own(m) # Own(Memory),
                                          freeRoot |-> m.freeRoot])
  /\ UNCHANGED qvars

\* The statics of buddy.c as the loader leaves them: buckets[], node_is_split[]
\* and bucket_limit zeroed, base_ptr and max_ptr as initialized.
BuddyStatics ==
  /\ node_is_split = [i \in SplitBits |-> 0]
  /\ bucket_limit = 0
  /\ max_ptr = base_ptr + MAX_ALLOC + 1
  /\ crashed = FALSE
  /\ live = {}
  /\ history = <<>>

\* What page zero holds where it can be read: words that are null or point
\* into memory that is none of the allocator's.
PageZeroWords == {NULL, Foreign}

InitBuddy ==
  /\ BuddyStatics
  /\ nullTraps \in BOOLEAN
  /\ \E z0, z1 \in PageZeroWords :
        /\ nullTraps => (z0 = NULL /\ z1 = NULL)
        /\ mem = [a \in Addresses |-> IF a = PrevOf(NULL) THEN z0
                                      ELSE IF a = NextOf(NULL) THEN z1 ELSE 0]
  /\ newMessageQueue
  /\ messageSize = 0
  /\ ownerState = "ready"
  /\ pc = "idle"
  /\ rPid = -1
  /\ rLen = 0
  /\ dest = <<>>
  /\ sentCount = [p \in Senders |-> 0]
  /\ sentBytes = [p \in Senders |-> 0]
  /\ consumed = [p \in Senders |-> 0]
  /\ rBlocked = FALSE
  /\ rAvail = 0
  /\ sendRet = NoReturn
  /\ allocFail = "none"

NextBuddy == Malloc \/ Free

SpecBuddy == InitBuddy /\ [][NextBuddy]_vars

InitQueue ==
  /\ newMessageQueue
  /\ ownerState = "ready"
  /\ pc = "idle"
  /\ rPid = -1
  /\ rLen = 0
  /\ dest = <<>>
  /\ sentCount = [p \in Senders |-> 0]
  /\ sentBytes = [p \in Senders |-> 0]
  /\ consumed = [p \in Senders |-> 0]
  /\ rBlocked = FALSE
  /\ rAvail = 0
  /\ sendRet = NoReturn
  /\ allocFail = "none"
  /\ BuddyStatics
  /\ nullTraps = TRUE
  /\ mem = [a \in Addresses |-> 0]

NextQueue == Send \/ ReceiveCall \/ Resume

SpecQueue == InitQueue /\ [][NextQueue]_vars

\* The scheduler runs a process that is not blocked again: a suspended
\* receiveMessage whose owner has been unblocked is eventually resumed.
NextLive == SendLive \/ ReceiveCall \/ Resume

LiveSpecQueue == InitQueue /\ [][NextLive]_vars /\ WF_vars(Resume)

\* The queue with a kernel heap that can run out.
NextAlloc == SendLive \/ ReceiveCall \/ Resume \/ SendAllocFails

SpecQueueAlloc == InitQueue /\ [][NextAlloc]_vars

(***************************************************************************)
(* Properties of the message queue.                                        *)
(***************************************************************************)

\* The bytes a completed receive was due: the next rLen bytes of the
\* sender's stream after those delivered by earlier receives.
Due == SubSeq(Stream(rPid), consumed[rPid] - rLen + 1, consumed[rPid])

\* Index of the first message of sender p in queue content q (0 if none).
RECURSIVE FirstIndexFrom(_,_,_)
FirstIndexFrom(q, p, i) ==
  IF i > Len(q) THEN 0
  ELSE IF q[i].pid = p THEN i ELSE FirstIndexFrom(q, p, i + 1)

FirstIndex(q, p) == FirstIndexFrom(q, p, 1)

\* C2: when a single receive of n bytes from sender s completes and n is
\* the total length of everything s has sent, the destination holds the
\* payloads of s concatenated in the order s sent them, whatever other
\* senders put into the queue in between.
C2_SendOrder ==
  (pc = "done" /\ consumed[rPid] = rLen /\ sentBytes[rPid] = rLen)
    => dest = Stream(rPid)

C2_Witness ==
  /\ pc = "done"
  /\ rBlocked
  /\ sentCount[rPid] = 2
  /\ rLen > MaxLen
  /\ consumed[rPid] = rLen
  /\ sentBytes[rPid] = rLen
  /\ NotFromPid(Queue, rPid) # <<>>
  /\ dest = Stream(rPid)

\* C3: once sends from the sender a suspended receive waits for have put
\* messages of at least rLen bytes in all into the queue, the receive is
\* eventually resumed and completes with exactly the rLen bytes it was due
\* in dest, the owner being runnable again.
C3_BlockedReceiveCompletes ==
  (pc = "yield" /\ FromPid(Queue, rPid) # <<>> /\ PendingBytes(rPid) >= rLen)
    ~> (pc = "done" /\ ownerState = "ready" /\ Len(dest) = rLen /\ dest = Due)

C3_Witness ==
  /\ pc = "done"
  /\ rBlocked
  /\ rAvail = 0
  /\ rLen = MaxLen
  /\ sentCount[rPid] = 1
  /\ dest = Stream(rPid)
  /\ ownerState = "ready"

\* C4: a receive blocks the owner exactly when fewer than rLen bytes of the
\* sender were pending at the call (so a receive of 0 bytes never blocks).
C4_BlocksIffShort ==
  pc # "idle" => (rBlocked <=> rAvail < rLen)

\* C9: a completing receive of n > 0 bytes whose first pending message from
\* the sender has length L: if n < L, dest gets the first n bytes and the
\* message stays where it is, holding the remaining L - n bytes; if n = L,
\* dest gets the whole of what the message held and the message is gone.
\* Received as k and then L - k bytes, a message therefore arrives as its
\* first k bytes followed by its original last L - k bytes.
C9_PartialReceive ==
  [][consumed' # consumed =>
       LET s == rPid'
           n == rLen'
           q == Queue
           i == FirstIndex(q, s)
           L == Len(q[i].text)
       IN /\ i > 0
          /\ (n < L =>
                /\ dest' = SubSeq(q[i].text, 1, n)
                /\ Queue' = [q EXCEPT ![i].text = SubSeq(q[i].text, n + 1, L)])
          /\ (n = L =>
                /\ dest' = q[i].text
                /\ NotFromPid(Queue', s) = NotFromPid(q, s)
                /\ Len(FromPid(Queue', s)) < Len(FromPid(q, s))
                /\ Concat(FromPid(Queue', s)) = SubSeq(Pending(s), n + 1, Len(Pending(s))))]_vars

\* One message of MaxLen bytes, received as 1 byte and then MaxLen - 1 bytes.
C9_Witness ==
  /\ pc = "done"
  /\ sentCount[rPid] = 1
  /\ sentBytes[rPid] = MaxLen
  /\ rLen = MaxLen - 1
  /\ rAvail = MaxLen - 1
  /\ consumed[rPid] = MaxLen
  /\ dest = Text(rPid, 1, MaxLen - 1)
  /\ FromPid(Queue, rPid) = <<>>

\* C10: a step of the receiver (a receive that completes, on the call or
\* after resuming) leaves the messages of every other sender in the queue
\* with the same payload, length and relative order.
C10_OtherSendersUntouched ==
  [][sentCount' = sentCount =>
       NotFromPid(Queue', rPid') = NotFromPid(Queue, rPid')]_vars

\* The other sender's message was sent between two messages of the sender
\* received from (nodes 1, 2, 3 in send order), and is still there.
C10_Witness ==
  /\ pc = "done"
  /\ rBlocked
  /\ rAvail = 0
  /\ sentCount[rPid] = 2
  /\ rLen > MaxLen
  /\ consumed[rPid] = rLen
  /\ DOMAIN nodes = {2}
  /\ nodes[2].pid # rPid
  /\ nodes[2].length > 0
  /\ first = 2

\* C12: a send in which an allocation fails is a dropped message: the
\* nodes, queue->first, queue->last, waitingForPid and messageSize are as
\* before, the owner is not unblocked, and the system call returns 0.
C12_FailedSendDropsMessage ==
  [][allocFail' # "none" =>
       /\ nodes' = nodes
       /\ first' = first
       /\ last' = last
       /\ waitingForPid' = waitingForPid
       /\ messageSize' = messageSize
       /\ ownerState' = ownerState
       /\ sendRet' = 0]_vars

\* A step of the receiver: receiveMessage is called or resumed.
ReceiverStep == sentCount' = sentCount
Blank(n) == [i \in 1..n |-> Unset]

\* C13: a receive that finds fewer than rLen bytes pending from the sender
\* suspends, on the call and each time it is resumed, and a receive that
\* suspends writes nothing into dest and leaves every node, queue->first
\* and queue->last as they were.
C13_NoPartialRead ==
  [][ReceiverStep =>
       /\ PendingBytes(rPid') < rLen' => pc' = "yield"
       /\ pc' = "yield" =>
            (/\ dest' = Blank(rLen')
             /\ nodes' = nodes
             /\ first' = first
             /\ last' = last)]_vars

\* A send arrived while the receive was suspended and the bytes are still
\* short of what was asked for.
C13_Witness ==
  /\ pc = "yield"
  /\ ownerState = "blocked"
  /\ rAvail < PendingBytes(rPid)
  /\ PendingBytes(rPid) < rLen
  /\ dest = Blank(rLen)

C17_UnblockOnlyWhenEnough ==
  [][\A p \in Senders :
       (/\ sentCount'[p] # sentCount[p]
        /\ OwnerIsUnblocked(p, sentBytes'[p] - sentBytes[p], nodes', first'))
         => (/\ p = waitingForPid
             /\ Len(Concat(FromPid(Queue', p))) >= messageSize)]_vars

\* C18: waitingForPid is a pid only while a receive is suspended; a
\* receive that completes leaves it at -1.
C18_WaitingOnlyWhileSuspended == waitingForPid # -1 => pc = "yield"

\* C19: the nodes reachable from queue->first are allocated, the first has
\* head = NULL, every other has its predecessor as head, the last has
\* tail = NULL and is queue->last, and queue->last is NULL or an allocated
\* node when the list is empty.
ValidList ==
  LET ids == WalkIds(nodes, first)
  IN /\ \A k \in 1..Len(ids) :
          /\ ids[k] \in DOMAIN nodes
          /\ nodes[ids[k]].head = (IF k = 1 THEN NULL ELSE ids[k - 1])
     /\ last \in DOMAIN nodes \cup {NULL}
     /\ ids # <<>> => last = ids[Len(ids)]
     /\ ids = <<>> => last = NULL

C19_ValidList == ValidList

(***************************************************************************)
(* Properties of the buddy allocator.                                      *)
(***************************************************************************)
Last == history[Len(history)]
Returned(c) == c.ret \notin {NULL, NoReturn}   \* the call handed out a block

\* The bytes of a live allocation: header and payload.
Interval(a) == [lo |-> a.ptr - HEADER_SIZE, hi |-> a.ptr + a.request]

\* C1: the intervals [a - 8, a + request) of the live allocations are
\* pairwise disjoint and lie inside [base, base + MAX_ALLOC).
C1_LiveDisjoint ==
  \A a, b \in live :
    /\ Interval(a).lo >= base_ptr
    /\ Interval(a).hi <= base_ptr + MAX_ALLOC
    /\ a # b => (Interval(a).hi <= Interval(b).lo \/ Interval(b).hi <= Interval(a).lo)

\* C5: with no other allocation live, malloc(MAX_ALLOC - 8) returns the
\* payload of the root block, base + 8.
C5_WholeWindow ==
  (/\ history # <<>>
   /\ Last.name = "malloc"
   /\ Last.arg = MAX_ALLOC - HEADER_SIZE
   /\ \A a \in live : a.ptr = Last.ret)
    => Last.ret = base_ptr + HEADER_SIZE

\* C6: every malloc(request) with request + 8 > MAX_ALLOC, the sum taken in
\* the integers, returns NULL and leaves the allocator's state as it was.
C6_TooLargeFails ==
  \A i \in 1..Len(history) :
    (history[i].name = "malloc" /\ history[i].arg + HEADER_SIZE > MAX_ALLOC)
      => (history[i].ret = NULL /\ ~history[i].changed)

\* C7: with MIN_ALLOC = 128 and MAX_ALLOC = 1024, in the run malloc(200) four
\* times, malloc(200) again, free of the four blocks, malloc(900): the first
\* four calls and the last one return a block and the fifth returns NULL.
\* Stated of every prefix of that run.
FillAndDrainRun(h) ==
  /\ Len(h) <= 10
  /\ \A i \in 1..Len(h) :
       /\ i <= 5 => (h[i].name = "malloc" /\ h[i].arg = 200)
       /\ (6 <= i /\ i <= 9) => (h[i].name = "free" /\ h[i].arg = h[i - 5].ret)
       /\ i = 10 => (h[i].name = "malloc" /\ h[i].arg = 900)

C7_FillAndDrain ==
  (MIN_ALLOC = 128 /\ MAX_ALLOC = 1024 /\ FillAndDrainRun(history))
    => \A i \in 1..Len(history) :
         /\ (i <= 4 \/ i = 10) => Returned(history[i])
         /\ i = 5 => history[i].ret = NULL

\* C8: in the run A = malloc(200), B = malloc(200), free(A), free(B),
\* malloc(500), both blocks are handed out and the last call returns
\* base + 8.  Stated of every prefix of that run.
CoalesceRun(h) ==
  /\ Len(h) <= 5
  /\ \A i \in 1..Len(h) :
       /\ i <= 2 => (h[i].name = "malloc" /\ h[i].arg = 200)
       /\ (3 <= i /\ i <= 4) => (h[i].name = "free" /\ h[i].arg = h[i - 2].ret)
       /\ i = 5 => (h[i].name = "malloc" /\ h[i].arg = 500)

C8_Coalesce ==
  CoalesceRun(history)
    => \A i \in 1..Len(history) :
         /\ i <= 2 => Returned(history[i])
         /\ i = 5 => history[i].ret = base_ptr + HEADER_SIZE

\* The call a step makes, if it makes one.
Called == history' # history
NewCall == history'[Len(history')]

\* C14: every block malloc(request) hands out starts at a multiple of its
\* block size 2^(MAX_ALLOC_LOG2 - bucket_for_request(request + 8)) from
\* base, and malloc(1) on the allocator as loaded hands out such a block,
\* of MIN_ALLOC bytes.
BlockSize(request) ==
  2 ^ (MAX_ALLOC_LOG2 - bucket_for_request(SizeT(request + HEADER_SIZE)))

Aligned(c) == (c.ret - HEADER_SIZE - base_ptr) % BlockSize(c.arg) = 0

C14_Aligned ==
  \A i \in 1..Len(history) :
    history[i].name = "malloc" =>
      /\ Returned(history[i]) => Aligned(history[i])
      /\ (i = 1 /\ history[i].arg = 1) =>
            (Returned(history[i]) /\ Aligned(history[i]) /\ BlockSize(1) = MIN_ALLOC)

\* C15: free(NULL) changes nothing: the memory (free lists included), the
\* split bits, bucket_limit and max_ptr stay as they are, and the call
\* returns.
C15_ReleaseNullNoOp ==
  [][(Called /\ NewCall.name = "free" /\ NewCall.arg = NULL)
       => (/\ mem' = mem
           /\ node_is_split' = node_is_split
           /\ bucket_limit' = bucket_limit
           /\ max_ptr' = max_ptr
           /\ crashed' = crashed
           /\ live' = live)]_vars

\* free(NULL) was called after a malloc that wrote memory on its way.
C15_Witness ==
  /\ Len(history) = 2
  /\ history[1].name = "malloc"
  /\ mem # [a \in Addresses |-> 0]
  /\ history[2] = [name |-> "free", arg |-> NULL, ret |-> 0, changed |-> FALSE,
                  freeRoot |-> FALSE]
  /\ ~crashed

\* C20: the first malloc on the allocator as loaded (one that passes the
\* size check) starts its search of the free lists from an initialized
\* allocator: bucket_limit is BUCKET_COUNT - 1, buckets[BUCKET_COUNT - 1]
\* is a list holding exactly the block at base, and every split bit is 0.
Initialized(m) ==
  LET top == buckets(BUCKET_COUNT - 1)
  IN /\ ~m.fault
     /\ m.limit = BUCKET_COUNT - 1
     /\ m.mem[PrevOf(top)] = base_ptr
     /\ m.mem[NextOf(top)] = base_ptr
     /\ m.mem[PrevOf(base_ptr)] = top
     /\ m.mem[NextOf(base_ptr)] = top
     /\ \A i \in SplitBits : m.split[i] = 0

C20_FirstCallInitializes ==
  [][(history = <<>> /\ Called /\ NewCall.name = "malloc" /\ ~TooLarge(NewCall.arg))
       => Initialized(AtSearch(Memory))]_vars

\* The tree of blocks: node i lies at depth BucketOf(i) and covers the
\* bytes [NodeLo(i), NodeHi(i)); the interior nodes are those with children.
RECURSIVE BucketOf(_)
BucketOf(i) == IF i = 0 THEN 0 ELSE 1 + BucketOf((i - 1) \div 2)

NodeLo(i) == ptr_for_node(i, BucketOf(i))
NodeHi(i) == NodeLo(i) + 2 ^ (MAX_ALLOC_LOG2 - BucketOf(i))
Interior == 0..(2 ^ (BUCKET_COUNT - 1) - 2)
Root == node_for_ptr(base_ptr, bucket_limit)
InTree(i) == BucketOf(i) >= bucket_limit /\ NodeHi(i) <= NodeHi(Root)

\* No live allocation lies in the subtree of node i.
Unused(i) ==
  \A a \in live : Interval(a).hi <= NodeLo(i) \/ NodeHi(i) <= Interval(a).lo

Xor(p, q) == IF p # q THEN 1 ELSE 0

\* Some malloc that passed the size check has searched the free lists and
\* returned, and the program is alive.
Searched ==
  /\ ~crashed
  /\ \E i \in 1..Len(history) :
       /\ history[i].name = "malloc"
       /\ ~TooLarge(history[i].arg)
       /\ history[i].ret # NoReturn

RECURSIVE ChainFrom(_,_,_)
ChainFrom(p, list, fuel) ==
  IF p = list \/ p \notin Blocks \/ fuel = 0 THEN <<>>
  ELSE <<p>> \o ChainFrom(mem[NextOf(p)], list, fuel - 1)

FreeChain(b) == ChainFrom(mem[NextOf(buckets(b))], buckets(b), Cardinality(Blocks))

RECURSIVE ClosesFrom(_,_,_)
ClosesFrom(p, list, fuel) ==
  IF p = list THEN TRUE
  ELSE IF p \notin Blocks \/ fuel = 0 THEN FALSE
  ELSE ClosesFrom(mem[NextOf(p)], list, fuel - 1)

ListCloses(b) == ClosesFrom(mem[NextOf(buckets(b))], buckets(b), Cardinality(Blocks))

\* The blocks of the allocator: [lo, hi) with the list or allocation that
\* holds them.
FreeBlockSet ==
  UNION {{[lo |-> FreeChain(b)[k], hi |-> FreeChain(b)[k] + 2 ^ (MAX_ALLOC_LOG2 - b),
           bucket |-> b, at |-> k] : k \in 1..Len(FreeChain(b))} :
         b \in bucket_limit..(BUCKET_COUNT - 1)}

LiveBlockSet ==
  {[lo |-> a.ptr - HEADER_SIZE, hi |-> a.ptr - HEADER_SIZE + BlockSize(a.request),
    bucket |-> bucket_for_request(SizeT(a.request + HEADER_SIZE)), at |-> 0] :
     a \in live}

TreeLo == base_ptr
TreeHi == base_ptr + 2 ^ (MAX_ALLOC_LOG2 - bucket_limit)

\* C24: after a call that returned, the blocks on the free lists and the
\* live blocks partition [base, base + 2^(k_max - bucket_limit)): the free
\* lists of the current tree are closed chains of blocks, every block lies
\* in the range, and every byte of the range lies in exactly one block.
C24_Partition ==
  Searched =>
    /\ \A b \in bucket_limit..(BUCKET_COUNT - 1) : ListCloses(b)
    /\ \A blk \in FreeBlockSet \cup LiveBlockSet : TreeLo <= blk.lo /\ blk.hi <= TreeHi
    /\ \A p \in Blocks :
         p < TreeHi =>
           Cardinality({blk \in FreeBlockSet \cup LiveBlockSet :
                          blk.lo <= p /\ p < blk.hi}) = 1

====
